---- MODULE Spec2Model ----
(***************************************************************************)
(* A model of `singularity pull` (cmd/internal/cli/pull.go, pullRun): the  *)
(* main flow of one pull, the signal goroutine that races it, and the      *)
(* files both touch (the destination directory of each pull and the        *)
(* library cache all pulls share).                                         *)
(*                                                                         *)
(* Strings that the code takes apart (URIs, the line read from stdin) are  *)
(* sequences of tokens, so that Split, GetName, ReadString and ToLower are *)
(* computed and not assumed.  File contents are sequences of chunks.       *)
(***************************************************************************)
EXTENDS Integers, Sequences, FiniteSets, TLC

\* The pulls that may run on the host, each its own process.
Procs == {"p1", "p2"}

\* Number of chunks of the image served by the library.
ImgLen == 2

(***************************************************************************)
(* Constants of pull.go                                                    *)
(***************************************************************************)
LibraryProtocol == "library"
ShubProtocol == "shub"
HTTPProtocol == "http"
HTTPSProtocol == "https"

(***************************************************************************)
(* Files                                                                   *)
(***************************************************************************)
NoFile == [present |-> FALSE, data |-> <<>>]
File(d) == [present |-> TRUE, data |-> d]

\* The image the library holds, and a stream that differs from it in its
\* last chunk (corrupted or tampered with on the way).
Good == [i \in 1..ImgLen |-> 1]
Bad == [i \in 1..ImgLen |-> IF i = ImgLen THEN 2 ELSE 1]
\* What a destination that existed before the pull holds.
OldData == <<2, 2>>

\* A write of chunk b at offset pos (1-based) through a file handle: a
\* position past the end leaves a hole of zero chunks.
WriteAt(d, pos, b) ==
    IF pos <= Len(d) THEN [d EXCEPT ![pos] = b]
    ELSE d \o [i \in 1..(pos - Len(d) - 1) |-> 0] \o <<b>>

\* client.ImageHash: a hash of the file's bytes (16 bits wide here).
RECURSIVE ImageHash(_)
ImageHash(d) ==
    IF d = <<>> THEN 1
    ELSE (ImageHash(SubSeq(d, 1, Len(d) - 1)) * 3 + d[Len(d)] + 1) % 65536

(***************************************************************************)
(* uri.Split, uri.GetName                                                  *)
(***************************************************************************)
RECURSIVE ColonAt(_, _)
ColonAt(u, i) ==
    IF i > Len(u) THEN 0
    ELSE IF u[i] = ":" THEN i
    ELSE ColonAt(u, i + 1)

\* uri.Split: the transport before the first colon and the reference after
\* it; a string with no colon has no transport and is its own reference.
Split(u) ==
    LET k == ColonAt(u, 1)
    IN IF k = 0 THEN [transport |-> "", ref |-> u]
       ELSE [transport |-> IF k = 1 THEN "" ELSE u[1],
             ref |-> SubSeq(u, k + 1, Len(u))]

\* uri.GetName: the last path element of the reference; no name for a
\* string with no transport.
GetName(u) ==
    LET s == Split(u)
    IN IF s.transport = "" \/ s.ref = <<>> THEN ""
       ELSE s.ref[Len(s.ref)]

LibraryPrefix == <<"library", ":", "//">>

\* The references given on the command line.
URIs == {
    <<"alpine">>,
    <<"library", ":", "//", "alpine">>,
    <<"shub", ":", "//", "org", "/", "busybox">>,
    <<"http", ":", "//", "host", "/", "busybox">>,
    <<"https", ":", "//", "host", "/", "busybox">>,
    <<"docker", ":", "//", "busybox">>,
    <<"library", ":">>,
    <<>> }

\* The names a destination can get from them.
DestNames == {"alpine", "busybox", "out.sif", "custom.sif"}

(***************************************************************************)
(* bufio.Reader.ReadString('\n'), strings.ToLower                          *)
(***************************************************************************)
RECURSIVE NewlineAt(_, _)
NewlineAt(s, i) ==
    IF i > Len(s) THEN 0
    ELSE IF s[i] = "\n" THEN i
    ELSE NewlineAt(s, i + 1)

\* ReadString: the input up to and including the first newline; all of it
\* and an error (EOF) when there is none.
ReadString(s) ==
    LET k == NewlineAt(s, 1)
    IN IF k = 0 THEN [input |-> s, err |-> TRUE]
       ELSE [input |-> SubSeq(s, 1, k), err |-> FALSE]

LowerChar(c) ==
    CASE c = "Y" -> "y"
      [] c = "N" -> "n"
      [] c = "E" -> "e"
      [] c = "S" -> "s"
      [] OTHER -> c

ToLower(s) == [i \in 1..Len(s) |-> LowerChar(s[i])]

\* What the operator may type at the prompt (the last two end without a
\* newline: end of input).
StdinStreams == {
    <<"y", "\n">>,
    <<"Y", "\n">>,
    <<"n", "\n">>,
    <<"y", "e", "s", "\n">>,
    <<"\n">>,
    <<"y">>,
    <<>> }

(***************************************************************************)
(* The library cache (internal/pkg/client/cache)                           *)
(***************************************************************************)
\* cache.LibraryImage: the path of the entry for (sum, name); it creates
\* nothing.
LibraryImage(sum, nm) == <<sum, nm>>

CachePaths == {LibraryImage(ImageHash(Good), n) : n \in DestNames}

\* cache.LibraryImageExists: whether the entry's file is there; the bytes
\* are not hashed again.
LibraryImageExists(c, sum, nm) == c[LibraryImage(sum, nm)].present

(***************************************************************************)
(* State                                                                   *)
(***************************************************************************)
VARIABLES
    args,                \* [Procs -> the positional arguments]
    PullImageName,       \* --name
    force,               \* --force
    unauthenticatedPull, \* --allow-unauthenticated
    PullLibraryURI,      \* --library
    pc,                  \* where the main flow of each pull is
    transport,           \* uri.Split's transport
    name,                \* the destination name
    libraryImage,        \* what client.GetImage returned (its Hash)
    imagePath,           \* the cache path of the image
    served,              \* the bytes the library streams to this download
    off,                 \* chunks written by the running download or copy
    dstLinked,           \* dstFile's inode is still the file called name
    input,               \* the line read at the prompt
    guard,               \* where the signal goroutine is
    fileName,            \* the goroutine's argument
    sigLost,             \* a termination request was dropped
    sigInTransfer,       \* the goroutine got one during the download or the copy
    fs,                  \* [Procs -> [DestNames -> file]]: working directory
    cache,               \* [CachePaths -> file]: shared by all pulls
    status,              \* the exit status, once pc is "exited"
    log                  \* the calls made and messages printed, in order

inputs == <<args, PullImageName, force, unauthenticatedPull, PullLibraryURI>>
locals == <<transport, name, libraryImage, imagePath, served, off, dstLinked, input>>
guards == <<guard, fileName, sigLost, sigInTransfer>>
vars == <<inputs, locals, guards, pc, fs, cache, status, log>>

Alive(p) == pc[p] \notin {"off", "exited"}

\* The main flow is in client.DownloadImage or in io.Copy.
TransferPcs == {"downloading", "copy"}

\* The command lines: (positional arguments, --name).
ArgLists == {<<u>> : u \in URIs} \cup {<<"out.sif", u>> : u \in URIs}
CommandLines ==
    {[args |-> a, PullImageName |-> ""] : a \in ArgLists}
    \cup {[args |-> <<u>>, PullImageName |-> "custom.sif"] : u \in URIs}

\* A working directory: empty, or with every name taken by an older file.
Directories == {[n \in DestNames |-> NoFile], [n \in DestNames |-> File(OldData)]}

\* A cache: empty, or holding the image from an earlier, completed pull.
Caches == {[k \in CachePaths |-> NoFile],
           [k \in CachePaths |->
               IF k = LibraryImage(ImageHash(Good), "alpine") THEN File(Good) ELSE NoFile]}

InitLocals ==
    /\ transport = [p \in Procs |-> ""]
    /\ name = [p \in Procs |-> ""]
    /\ libraryImage = [p \in Procs |-> [Hash |-> 0]]
    /\ imagePath = [p \in Procs |-> LibraryImage(0, "")]
    /\ served = [p \in Procs |-> <<>>]
    /\ off = [p \in Procs |-> 0]
    /\ dstLinked = [p \in Procs |-> FALSE]
    /\ input = [p \in Procs |-> <<>>]
    /\ guard = [p \in Procs |-> "none"]
    /\ fileName = [p \in Procs |-> ""]
    /\ sigLost = [p \in Procs |-> FALSE]
    /\ sigInTransfer = [p \in Procs |-> FALSE]
    /\ status = [p \in Procs |-> 0]
    /\ log = [p \in Procs |-> <<>>]

\* One pull (p1) with any command line and flags; p2 is not run.
Init ==
    /\ \E cl \in CommandLines :
        /\ args = [p \in Procs |-> cl.args]
        /\ PullImageName = [p \in Procs |-> cl.PullImageName]
    /\ \E f \in BOOLEAN : force = [p \in Procs |-> f]
    /\ \E u \in BOOLEAN : unauthenticatedPull = [p \in Procs |-> u]
    /\ \E l \in {"", "https://library.sylabs.io"} : PullLibraryURI = [p \in Procs |-> l]
    /\ pc = [p \in Procs |-> IF p = "p1" THEN "start" ELSE "off"]
    /\ \E d \in Directories : fs = [p \in Procs |-> d]
    /\ cache \in Caches
    /\ InitLocals

(***************************************************************************)
(* Leaving the process                                                     *)
(***************************************************************************)
\* os.Exit(code), the messages evs having been printed or logged.
Exit(p, code, evs) ==
    /\ pc' = [pc EXCEPT ![p] = "exited"]
    /\ status' = [status EXCEPT ![p] = code]
    /\ log' = [log EXCEPT ![p] = @ \o evs]

\* sylog.Fatalf: the message, then os.Exit(255).
Fatalf(p, evs, msg) == Exit(p, 255, evs \o <<msg>>)

\* The main flow goes on to `to`, the calls evs having been made.
Goto(p, to, evs) ==
    /\ pc' = [pc EXCEPT ![p] = to]
    /\ log' = [log EXCEPT ![p] = @ \o evs]
    /\ UNCHANGED status

(***************************************************************************)
(* pullRun: the reference and the destination name                         *)
(***************************************************************************)
\* DestinationName with --name not looked at.
DestinationName_OverrideIgnored(a, override, tr) ==
    LET i == Len(a)
    IN IF Len(a) = 1
       THEN IF tr = "" THEN GetName(LibraryPrefix \o a[i]) ELSE GetName(a[i])
       ELSE a[1]

\* The name of the destination (pull.go, lines 99-111).
DestinationName(a, override, tr) ==
    LET i == Len(a)
    IN IF override = ""
       THEN IF Len(a) = 1
            THEN IF tr = "" THEN GetName(LibraryPrefix \o a[i]) ELSE GetName(a[i])
            ELSE a[1]
       ELSE override

\* Resolve with the reference not looked at.
Resolve_NoRefCheck(p) ==
    /\ pc[p] = "start"
    /\ LET i == Len(args[p])
           s == Split(args[p][i])
       IN /\ transport' = [transport EXCEPT ![p] = s.transport]
          /\ name' = [name EXCEPT ![p] =
                         DestinationName(args[p], PullImageName[p], s.transport)]
          /\ Goto(p, "notify", <<>>)
    /\ UNCHANGED <<inputs, libraryImage, imagePath, served, off, dstLinked, input,
                   guards, fs, cache>>

\* uri.Split of the last argument; "bad uri" when the reference is empty;
\* else the destination name.
Resolve(p) ==
    /\ pc[p] = "start"
    /\ LET i == Len(args[p])
           s == Split(args[p][i])
       IN IF s.ref = <<>>
          THEN /\ Fatalf(p, <<>>, "bad uri")
               /\ UNCHANGED <<transport, name>>
          ELSE /\ transport' = [transport EXCEPT ![p] = s.transport]
               /\ name' = [name EXCEPT ![p] =
                              DestinationName(args[p], PullImageName[p], s.transport)]
               /\ Goto(p, "notify", <<>>)
    /\ UNCHANGED <<inputs, libraryImage, imagePath, served, off, dstLinked, input,
                   guards, fs, cache>>

(***************************************************************************)
(* The signal goroutine                                                    *)
(***************************************************************************)
\* signal.Notify(c, ...) on the unbuffered channel c, and the go statement
\* that hands name to the goroutine.
RegisterGuard(p) ==
    /\ pc[p] = "notify"
    /\ guard' = [guard EXCEPT ![p] = "notified"]
    /\ fileName' = [fileName EXCEPT ![p] = name[p]]
    /\ Goto(p, "switch", <<"Notify">>)
    /\ UNCHANGED <<inputs, locals, sigLost, sigInTransfer, fs, cache>>

\* The goroutine is scheduled and blocks in <-c.
GuardStart(p) ==
    /\ Alive(p)
    /\ guard[p] = "notified"
    /\ guard' = [guard EXCEPT ![p] = "waiting"]
    /\ UNCHANGED <<inputs, locals, fileName, sigLost, sigInTransfer, pc, fs, cache, status, log>>

\* A termination request (SIGINT, SIGTERM) reaches the process.  Before
\* signal.Notify the default action ends it.  After, the runtime hands the
\* signal to c without blocking: the goroutine gets it if it is waiting in
\* <-c, and it is dropped otherwise (sigLost: dropped with the goroutine
\* not yet in <-c; a request that follows one the goroutine has is dropped
\* too, the goroutine being on its way to os.Exit).
Signal(p) ==
    /\ Alive(p)
    /\ CASE guard[p] = "none" ->
              /\ Exit(p, 130, <<"killed">>)
              /\ UNCHANGED <<guard, sigLost, sigInTransfer>>
         [] guard[p] = "waiting" ->
              /\ guard' = [guard EXCEPT ![p] = "received"]
              /\ sigInTransfer' = [sigInTransfer EXCEPT ![p] = pc[p] \in TransferPcs]
              /\ UNCHANGED <<sigLost, pc, status, log>>
         [] guard[p] = "notified" ->
              /\ sigLost' = [sigLost EXCEPT ![p] = TRUE]
              /\ UNCHANGED <<guard, sigInTransfer, pc, status, log>>
         [] OTHER ->
              UNCHANGED <<guard, sigLost, sigInTransfer, pc, status, log>>
    /\ UNCHANGED <<inputs, locals, fileName, fs, cache>>

\* os.Remove(fileName), its error dropped.
GuardRemove(p) ==
    /\ Alive(p)
    /\ guard[p] = "received"
    /\ guard' = [guard EXCEPT ![p] = "removed"]
    /\ fs' = [fs EXCEPT ![p][fileName[p]] = NoFile]
    /\ dstLinked' = [dstLinked EXCEPT ![p] = IF fileName[p] = name[p] THEN FALSE ELSE @]
    /\ UNCHANGED <<inputs, transport, name, libraryImage, imagePath, served, off, input,
                   fileName, sigLost, sigInTransfer, pc, cache, status, log>>

\* os.Exit(1)
GuardExit(p) ==
    /\ Alive(p)
    /\ guard[p] = "removed"
    /\ Exit(p, 1, <<"interrupted">>)
    /\ UNCHANGED <<inputs, locals, guards, fs, cache>>

(***************************************************************************)
(* pullRun: the switch on the transport                                    *)
(***************************************************************************)
\* Strategy with shub taken for the library.
Strategy_ShubToLibrary(tr) ==
    CASE tr \in {LibraryProtocol, ShubProtocol, ""} -> "library"
      [] tr \in {HTTPProtocol, HTTPSProtocol} -> "net"
      [] OTHER -> "oci"

\* Strategy with the empty transport left to the default case.
Strategy_UntaggedToDefault(tr) ==
    CASE tr = LibraryProtocol -> "library"
      [] tr = ShubProtocol -> "shub"
      [] tr \in {HTTPProtocol, HTTPSProtocol} -> "net"
      [] OTHER -> "oci"

\* The case the switch takes.
Strategy(tr) ==
    CASE tr \in {LibraryProtocol, ""} -> "library"
      [] tr = ShubProtocol -> "shub"
      [] tr \in {HTTPProtocol, HTTPSProtocol} -> "net"
      [] OTHER -> "oci"

Dispatch(p) ==
    /\ pc[p] = "switch"
    /\ Goto(p, Strategy(transport[p]), <<>>)
    /\ UNCHANGED <<inputs, locals, guards, fs, cache>>

(***************************************************************************)
(* pullRun: case LibraryProtocol, ""                                       *)
(***************************************************************************)
\* OverwriteCheck with the result of os.Stat ignored.
OverwriteCheck_NoStat(p) ==
    /\ pc[p] = "library"
    /\ Goto(p, "getimage", IF force[p] THEN <<>> ELSE <<"Stat">>)
    /\ UNCHANGED <<inputs, locals, guards, fs, cache>>

\* if !force: os.Stat(name); "image file already exists" when it is there.
OverwriteCheck(p) ==
    /\ pc[p] = "library"
    /\ IF ~force[p] /\ fs[p][name[p]].present
       THEN Fatalf(p, <<"Stat">>, "image file already exists")
       ELSE Goto(p, "getimage", IF force[p] THEN <<>> ELSE <<"Stat">>)
    /\ UNCHANGED <<inputs, locals, guards, fs, cache>>

\* The name of the image in the cache (lines 136-141).
ImageName(a, tr) ==
    LET i == Len(a)
    IN IF tr = "" THEN GetName(LibraryPrefix \o a[i]) ELSE GetName(a[i])

\* client.GetImage: the library's metadata of the image, with its hash, or
\* an error; then the cache path for that hash and the image's name.
GetImage(p) ==
    /\ pc[p] = "getimage"
    /\ \E err \in BOOLEAN :
        IF err
        THEN /\ Fatalf(p, <<"GetImage">>, "While getting image info")
             /\ UNCHANGED <<libraryImage, imagePath>>
        ELSE /\ libraryImage' = [libraryImage EXCEPT ![p] = [Hash |-> ImageHash(Good)]]
             /\ imagePath' = [imagePath EXCEPT ![p] =
                    LibraryImage(ImageHash(Good), ImageName(args[p], transport[p]))]
             /\ Goto(p, "exists", <<"GetImage">>)
    /\ UNCHANGED <<inputs, transport, name, served, off, dstLinked, input,
                   guards, fs, cache>>

\* cache.LibraryImageExists: an error is fatal; a hit goes on to the copy, a
\* miss to the download.
CacheLookup(p) ==
    /\ pc[p] = "exists"
    /\ \E err \in BOOLEAN :
        IF err
        THEN Fatalf(p, <<"LibraryImageExists">>, "unable to check if exists")
        ELSE IF LibraryImageExists(cache, libraryImage[p].Hash,
                                   ImageName(args[p], transport[p]))
             THEN Goto(p, "opendst", <<"LibraryImageExists", "hit">>)
             ELSE Goto(p, "download", <<"LibraryImageExists", "miss">>)
    /\ UNCHANGED <<inputs, locals, guards, fs, cache>>

\* client.DownloadImage begins: the request fails, or the file at imagePath
\* is created (truncated when it is there) and the library starts to stream.
DownloadBegin(p) ==
    /\ pc[p] = "download"
    /\ \/ /\ Fatalf(p, <<"DownloadImage">>, "unable to Download Image")
          /\ UNCHANGED <<served, off, cache>>
       \/ /\ \E bytes \in {Good, Bad} : served' = [served EXCEPT ![p] = bytes]
          /\ off' = [off EXCEPT ![p] = 0]
          /\ cache' = [cache EXCEPT ![imagePath[p]] = File(<<>>)]
          /\ Goto(p, "downloading", <<"DownloadImage">>)
    /\ UNCHANGED <<inputs, transport, name, libraryImage, imagePath, dstLinked, input,
                   guards, fs>>

\* client.DownloadImage goes on: the next chunk is written to the cache
\* file, or the stream has ended.
DownloadChunk(p) ==
    /\ pc[p] = "downloading"
    /\ IF off[p] < Len(served[p])
       THEN /\ cache' = [cache EXCEPT ![imagePath[p]] =
                   File(WriteAt(@.data, off[p] + 1, served[p][off[p] + 1]))]
            /\ off' = [off EXCEPT ![p] = @ + 1]
            /\ UNCHANGED <<pc, status, log>>
       ELSE /\ Goto(p, "hash", <<>>)
            /\ UNCHANGED <<off, cache>>
    /\ UNCHANGED <<inputs, transport, name, libraryImage, imagePath, served, dstLinked,
                   input, guards, fs>>

\* client.DownloadImage fails while the stream is running.
DownloadFail(p) ==
    /\ pc[p] = "downloading"
    /\ Fatalf(p, <<>>, "unable to Download Image")
    /\ UNCHANGED <<inputs, locals, guards, fs, cache>>

\* HashCheck with the result of the comparison not looked at.
HashCheck_MismatchIgnored(p) ==
    /\ pc[p] = "hash"
    /\ \E err \in BOOLEAN :
        IF err
        THEN Fatalf(p, <<"ImageHash">>, "Error getting ImageHash")
        ELSE Goto(p, "opendst", <<"ImageHash">>)
    /\ UNCHANGED <<inputs, locals, guards, fs, cache>>

\* client.ImageHash of the cache file, compared with the library's hash.
HashCheck(p) ==
    /\ pc[p] = "hash"
    /\ \E err \in BOOLEAN :
        IF err
        THEN Fatalf(p, <<"ImageHash">>, "Error getting ImageHash")
        ELSE IF ImageHash(cache[imagePath[p]].data) # libraryImage[p].Hash
             THEN Fatalf(p, <<"ImageHash">>, "Hash does not match")
             ELSE Goto(p, "opendst", <<"ImageHash">>)
    /\ UNCHANGED <<inputs, locals, guards, fs, cache>>

\* os.OpenFile(name, O_CREATE|O_TRUNC|O_WRONLY)
OpenDst(p) ==
    /\ pc[p] = "opendst"
    /\ \E err \in BOOLEAN :
        IF err
        THEN /\ Fatalf(p, <<"OpenDst">>, "open destination")
             /\ UNCHANGED <<fs, dstLinked, off>>
        ELSE /\ fs' = [fs EXCEPT ![p][name[p]] = File(<<>>)]
             /\ dstLinked' = [dstLinked EXCEPT ![p] = TRUE]
             /\ off' = [off EXCEPT ![p] = 0]
             /\ Goto(p, "opensrc", <<"OpenDst">>)
    /\ UNCHANGED <<inputs, transport, name, libraryImage, imagePath, served, input,
                   guards, cache>>

\* os.OpenFile(imagePath, O_RDONLY)
OpenSrc(p) ==
    /\ pc[p] = "opensrc"
    /\ \E err \in BOOLEAN :
        IF err \/ ~cache[imagePath[p]].present
        THEN Fatalf(p, <<"OpenSrc">>, "open cache file")
        ELSE Goto(p, "copy", <<"OpenSrc">>)
    /\ UNCHANGED <<inputs, locals, guards, fs, cache>>

\* io.Copy(dstFile, srcFile) goes on: the next chunk of the cache file is
\* written through dstFile (to the file called name while dstFile's inode
\* is linked there), or the cache file has ended.
CopyChunk(p) ==
    /\ pc[p] = "copy"
    /\ IF off[p] < Len(cache[imagePath[p]].data)
       THEN /\ fs' = [fs EXCEPT ![p][name[p]] =
                   IF dstLinked[p]
                   THEN File(WriteAt(@.data, off[p] + 1, cache[imagePath[p]].data[off[p] + 1]))
                   ELSE @]
            /\ off' = [off EXCEPT ![p] = @ + 1]
            /\ UNCHANGED <<pc, status, log>>
       ELSE /\ Goto(p, "trust", <<"Copy">>)
            /\ UNCHANGED <<off, fs>>
    /\ UNCHANGED <<inputs, transport, name, libraryImage, imagePath, served, dstLinked,
                   input, guards, cache>>

\* io.Copy fails.
CopyFail(p) ==
    /\ pc[p] = "copy"
    /\ Fatalf(p, <<>>, "copy failed")
    /\ UNCHANGED <<inputs, locals, guards, fs, cache>>

(***************************************************************************)
(* pullRun: is the image signed?                                           *)
(***************************************************************************)
\* What signing.IsSigned can return: (signed, error).
IsSignedResults ==
    {[signed |-> TRUE, err |-> FALSE],
     [signed |-> FALSE, err |-> FALSE],
     [signed |-> FALSE, err |-> TRUE]}

\* TrustGate with the error of signing.IsSigned fatal.
TrustGate_ErrorFatal(p) ==
    /\ pc[p] = "trust"
    /\ IF PullLibraryURI[p] # "" /\ ~unauthenticatedPull[p]
       THEN \E r \in IsSignedResults :
               IF r.err
               THEN Fatalf(p, <<"IsSigned", "warning">>, "unable to verify container")
               ELSE IF ~r.signed
                    THEN Goto(p, "prompt", <<"IsSigned", "not signed">>)
                    ELSE Goto(p, "return", <<"IsSigned">>)
       ELSE Goto(p, "return", <<"Skipping container verification">>)
    /\ UNCHANGED <<inputs, locals, guards, fs, cache>>

\* TrustGate with unauthenticatedPull not looked at.
TrustGate_FlagIgnored(p) ==
    /\ pc[p] = "trust"
    /\ IF PullLibraryURI[p] # ""
       THEN \E r \in IsSignedResults :
               LET warn == IF r.err THEN <<"IsSigned", "warning">> ELSE <<"IsSigned">>
               IN IF ~r.signed
                  THEN Goto(p, "prompt", warn \o <<"not signed">>)
                  ELSE Goto(p, "return", warn)
       ELSE Goto(p, "return", <<"Skipping container verification">>)
    /\ UNCHANGED <<inputs, locals, guards, fs, cache>>

\* With a library URI and without --allow-unauthenticated: signing.IsSigned
\* on name; its error is a warning; an image that is not signed leads to the
\* prompt.  Else "Skipping container verification".
TrustGate(p) ==
    /\ pc[p] = "trust"
    /\ IF PullLibraryURI[p] # "" /\ ~unauthenticatedPull[p]
       THEN \E r \in IsSignedResults :
               LET warn == IF r.err THEN <<"IsSigned", "warning">> ELSE <<"IsSigned">>
               IN IF ~r.signed
                  THEN Goto(p, "prompt", warn \o <<"not signed">>)
                  ELSE Goto(p, "return", warn)
       ELSE Goto(p, "return", <<"Skipping container verification">>)
    /\ UNCHANGED <<inputs, locals, guards, fs, cache>>

\* Prompt with only the first character of the line compared with "y".
Prompt_FirstCharOnly(p) ==
    /\ pc[p] = "prompt"
    /\ \E stream \in StdinStreams :
        LET r == ReadString(stream)
        IN IF r.err
           THEN /\ Fatalf(p, <<"ReadString">>, "Error parsing input")
                /\ UNCHANGED input
           ELSE /\ input' = [input EXCEPT ![p] = r.input]
                /\ IF ToLower(r.input)[1] # "y"
                   THEN Goto(p, "abort", <<"ReadString", "Aborting">>)
                   ELSE Goto(p, "return", <<"ReadString">>)
    /\ UNCHANGED <<inputs, transport, name, libraryImage, imagePath, served, off,
                   dstLinked, guards, fs, cache>>

\* "Do you wish to proceed? [N/y]": reader.ReadString('\n'); an error is
\* fatal; any line but "y\n", lower-cased, aborts.
Prompt(p) ==
    /\ pc[p] = "prompt"
    /\ \E stream \in StdinStreams :
        LET r == ReadString(stream)
        IN IF r.err
           THEN /\ Fatalf(p, <<"ReadString">>, "Error parsing input")
                /\ UNCHANGED input
           ELSE /\ input' = [input EXCEPT ![p] = r.input]
                /\ IF ToLower(r.input) # <<"y", "\n">>
                   THEN Goto(p, "abort", <<"ReadString", "Aborting">>)
                   ELSE Goto(p, "return", <<"ReadString">>)
    /\ UNCHANGED <<inputs, transport, name, libraryImage, imagePath, served, off,
                   dstLinked, guards, fs, cache>>

\* DeclineRemove with the error of os.Remove not looked at.
DeclineRemove_ErrIgnored(p) ==
    /\ pc[p] = "abort"
    /\ \E err \in BOOLEAN :
        /\ fs' = [fs EXCEPT ![p][name[p]] = IF err THEN @ ELSE NoFile]
        /\ dstLinked' = [dstLinked EXCEPT ![p] = IF err THEN @ ELSE FALSE]
        /\ Goto(p, "exit3", <<"Remove">>)
    /\ UNCHANGED <<inputs, transport, name, libraryImage, imagePath, served, off, input,
                   guards, cache>>

\* os.Remove(name) after "Aborting.": it fails when the file is not there
\* or cannot be removed, and then "Unable to delete container: <error>" is
\* fatal.
DeclineRemove(p) ==
    /\ pc[p] = "abort"
    /\ \E err \in BOOLEAN :
        IF err \/ ~fs[p][name[p]].present
        THEN /\ Fatalf(p, <<"Remove">>,
                       IF fs[p][name[p]].present
                       THEN "Unable to delete container: not permitted"
                       ELSE "Unable to delete container: no such file")
             /\ UNCHANGED <<fs, dstLinked>>
        ELSE /\ fs' = [fs EXCEPT ![p][name[p]] = NoFile]
             /\ dstLinked' = [dstLinked EXCEPT ![p] = FALSE]
             /\ Goto(p, "exit3", <<"Remove">>)
    /\ UNCHANGED <<inputs, transport, name, libraryImage, imagePath, served, off, input,
                   guards, cache>>

\* os.Exit(3)
DeclineExit(p) ==
    /\ pc[p] = "exit3"
    /\ Exit(p, 3, <<>>)
    /\ UNCHANGED <<inputs, locals, guards, fs, cache>>

\* pullRun returns: the deferred calls run, last deferred first
\* (srcFile.Close, then dstFile.Close, when the library flow has opened the
\* two files), and the command ends with status 0.
Return(p) ==
    /\ pc[p] = "return"
    /\ Exit(p, 0, IF "OpenSrc" \in {log[p][i] : i \in 1..Len(log[p])}
                  THEN <<"srcFile.Close", "dstFile.Close">>
                  ELSE <<>>)
    /\ UNCHANGED <<inputs, locals, guards, fs, cache>>

(***************************************************************************)
(* pullRun: the other cases                                                *)
(***************************************************************************)
\* A puller of libexec: it fails fatally, or leaves the image at name (it
\* overwrites a file only with force).
External(p, call) ==
    /\ \E ok \in BOOLEAN :
        IF ok /\ (force[p] \/ ~fs[p][name[p]].present)
        THEN /\ fs' = [fs EXCEPT ![p][name[p]] = File(Good)]
             /\ Goto(p, "return", <<call>>)
        ELSE /\ Fatalf(p, <<call>>, "pull failed")
             /\ UNCHANGED fs
    /\ UNCHANGED <<inputs, locals, guards, cache>>

\* case ShubProtocol: libexec.PullShubImage
PullShubImage(p) ==
    /\ pc[p] = "shub"
    /\ External(p, "PullShubImage")

\* case HTTPProtocol, HTTPSProtocol: libexec.PullNetImage
PullNetImage(p) ==
    /\ pc[p] = "net"
    /\ External(p, "PullNetImage")

\* default: makeDockerCredentials, whose error is fatal, then
\* libexec.PullOciImage
PullOciImage(p) ==
    /\ pc[p] = "oci"
    /\ \/ /\ Fatalf(p, <<"makeDockerCredentials">>, "While creating Docker credentials")
          /\ UNCHANGED <<inputs, locals, guards, fs, cache>>
       \/ External(p, "PullOciImage")

(***************************************************************************)
(* Specifications                                                          *)
(***************************************************************************)
Next ==
    \E p \in Procs :
        \/ Resolve(p)
        \/ RegisterGuard(p)
        \/ GuardStart(p)
        \/ Signal(p)
        \/ GuardRemove(p)
        \/ GuardExit(p)
        \/ Dispatch(p)
        \/ OverwriteCheck(p)
        \/ GetImage(p)
        \/ CacheLookup(p)
        \/ DownloadBegin(p)
        \/ DownloadChunk(p)
        \/ DownloadFail(p)
        \/ HashCheck(p)
        \/ OpenDst(p)
        \/ OpenSrc(p)
        \/ CopyChunk(p)
        \/ CopyFail(p)
        \/ TrustGate(p)
        \/ Prompt(p)
        \/ DeclineRemove(p)
        \/ DeclineExit(p)
        \/ Return(p)
        \/ PullShubImage(p)
        \/ PullNetImage(p)
        \/ PullOciImage(p)

Spec == Init /\ [][Next]_vars

\* Two pulls at once, in their own working directories, on one cache that
\* starts empty: p1 with a reference of any transport, p2 of the library
\* image; both with --force, only p2 with --allow-unauthenticated.
InitConc ==
    /\ \E u \in {v \in URIs : Split(v).transport # "" /\ Split(v).ref # <<>>} :
        args = [p \in Procs |-> IF p = "p1" THEN <<u>> ELSE <<<<"library", ":", "//", "alpine">>>>]
    /\ PullImageName = [p \in Procs |-> ""]
    /\ force = [p \in Procs |-> TRUE]
    /\ unauthenticatedPull = [p \in Procs |-> p = "p2"]
    /\ PullLibraryURI = [p \in Procs |-> "https://library.sylabs.io"]
    /\ pc = [p \in Procs |-> "start"]
    /\ fs = [p \in Procs |-> [n \in DestNames |-> NoFile]]
    /\ cache = [k \in CachePaths |-> NoFile]
    /\ InitLocals

SpecConc == InitConc /\ [][Next]_vars

(***************************************************************************)
(* Properties                                                              *)
(***************************************************************************)
InLog(p, e) == \E i \in 1..Len(log[p]) : log[p][i] = e
LastLog(p) == IF log[p] = <<>> THEN "" ELSE log[p][Len(log[p])]
Exited(p) == pc[p] = "exited"
DestPresent(p) == fs[p][name[p]].present

\* C1: a pull that ended on the hash mismatch ended with a non-zero status,
\* never opened the destination, and left no entry that
\* LibraryImageExists reports for the declared hash and the image's name.
C1_MismatchLeavesNoEntry ==
    \A p \in Procs :
        (Exited(p) /\ LastLog(p) = "Hash does not match")
        => /\ status[p] # 0
           /\ ~InLog(p, "OpenDst")
           /\ ~LibraryImageExists(cache, libraryImage[p].Hash,
                                  ImageName(args[p], transport[p]))

\* C2: a process that the goroutine ended (status 1), the request having
\* come during the download or the copy, has no file at the destination.
C2_InterruptedLeavesNoDestination ==
    \A p \in Procs :
        (Exited(p) /\ status[p] = 1 /\ sigInTransfer[p]) => ~DestPresent(p)

DeleteFailed(p) ==
    \/ InLog(p, "Unable to delete container: not permitted")
    \/ InLog(p, "Unable to delete container: no such file")

\* The operator's line was read and, lower-cased, is not "y\n".
Declined(p) ==
    /\ InLog(p, "ReadString")
    /\ ~InLog(p, "Error parsing input")
    /\ ToLower(input[p]) # <<"y", "\n">>

\* No termination request has reached the goroutine.
NotInterrupted(p) == guard[p] \in {"none", "notified", "waiting"}

C4_FatalLeavesNoDestination ==
    \A p \in Procs :
        (Exited(p) /\ status[p] \in {3, 255} /\ InLog(p, "OpenDst") /\ ~InLog(p, "open destination"))
        => ~DestPresent(p)

\* C5: with --allow-unauthenticated, the library flow never calls
\* signing.IsSigned and never reads stdin; having copied the image it logs
\* that verification is skipped and returns (status 0, or 1 when the
\* goroutine ends the process first).
C5_UnauthenticatedNeverPrompts ==
    \A p \in Procs :
        unauthenticatedPull[p] =>
            /\ ~InLog(p, "IsSigned")
            /\ ~InLog(p, "ReadString")
            /\ pc[p] \notin {"prompt", "abort", "exit3"}
            /\ InLog(p, "Copy") =>
                    /\ pc[p] \in {"trust", "return", "exited"}
                    /\ Exited(p) => status[p] \in {0, 1}
                    /\ (pc[p] = "return" \/ (Exited(p) /\ status[p] = 0))
                           => InLog(p, "Skipping container verification")

\* C5's case: a library pull with --allow-unauthenticated and a library URI
\* ended with status 0, verification skipped.
C5_Witness ==
    \E p \in Procs :
        /\ unauthenticatedPull[p] /\ PullLibraryURI[p] # ""
        /\ Exited(p) /\ status[p] = 0
        /\ InLog(p, "Skipping container verification")

NetworkCalls == {"GetImage", "DownloadImage", "PullShubImage", "PullNetImage", "PullOciImage"}
CacheCalls == {"LibraryImageExists", "ImageHash", "OpenSrc"}

\* C6: in the library flow, the step that leaves the overwrite check with
\* force false and a file at the destination ends the process, with no
\* network call and no cache call made and the cache as it was; and a
\* process that has ended does nothing more.
C6_ExistingDestinationFailsFirst ==
    [][\A p \in Procs :
          /\ (pc[p] = "library" /\ ~force[p] /\ DestPresent(p) /\ pc'[p] # pc[p])
             => /\ pc'[p] = "exited"
                /\ status'[p] \in {1, 255}
                /\ cache' = cache
                /\ \A i \in 1..Len(log'[p]) : log'[p][i] \notin NetworkCalls \cup CacheCalls
          /\ Exited(p) => (pc'[p] = "exited" /\ log'[p] = log[p])]_vars

\* C6's case: the pull ended on "image file already exists".
C6_Witness ==
    \E p \in Procs :
        /\ Exited(p) /\ status[p] = 255
        /\ LastLog(p) = "image file already exists"
        /\ ~force[p] /\ DestPresent(p)

\* C7: with several pulls running, the cache entry that
\* LibraryImageExists has reported to a pull (a hit), and that the pull is
\* about to copy or is copying, holds bytes whose hash is the entry's hash.
C7_CacheHashValidOrAbsent ==
    \A p \in Procs :
        (pc[p] \in {"opendst", "opensrc", "copy"} /\ InLog(p, "hit")) =>
            /\ LibraryImageExists(cache, libraryImage[p].Hash, imagePath[p][2])
            /\ ImageHash(cache[imagePath[p]].data) = libraryImage[p].Hash

\* C8: a decline whose os.Remove fails only because the goroutine has
\* removed the file already does not end in the fatal exit (255).
C8_LostRemoveRaceNotFatal ==
    \A p \in Procs :
        ~ /\ Exited(p) /\ status[p] = 255
          /\ guard[p] = "removed"
          /\ LastLog(p) = "Unable to delete container: no such file"

\* C9: the warning for an error of signing.IsSigned is followed by the "not
\* signed" warning and the prompt, as for an image that is not signed; the
\* pull then ends with status 0 only on "y\n", and fatally only on what
\* follows the prompt (the read of stdin, the deletion).
C9_VerificationErrorIsNotFatal ==
    \A p \in Procs :
        /\ \A i \in 1..Len(log[p]) :
              log[p][i] = "warning" =>
                  /\ i > 1 /\ log[p][i - 1] = "IsSigned"
                  /\ i < Len(log[p]) /\ log[p][i + 1] = "not signed"
        /\ InLog(p, "warning") =>
              /\ pc[p] \in {"prompt", "abort", "exit3", "return", "exited"}
              /\ (Exited(p) /\ status[p] = 255) =>
                    \/ LastLog(p) = "Error parsing input"
                    \/ DeleteFailed(p)
              /\ (pc[p] = "return" \/ (Exited(p) /\ status[p] = 0)) =>
                    /\ InLog(p, "ReadString")
                    /\ ToLower(input[p]) = <<"y", "\n">>

\* C9's case: IsSigned gave an error, the operator typed "y\n", status 0.
C9_Witness ==
    \E p \in Procs :
        /\ InLog(p, "warning")
        /\ Exited(p) /\ status[p] = 0
        /\ DestPresent(p)

LibraryEvents ==
    {"Stat", "GetImage", "LibraryImageExists", "DownloadImage", "ImageHash", "OpenDst",
     "OpenSrc", "Copy", "IsSigned", "ReadString", "Remove",
     "Skipping container verification"}

\* The strategy a call belongs to.
EventStrategy(e) ==
    CASE e \in LibraryEvents -> "library"
      [] e = "PullShubImage" -> "shub"
      [] e = "PullNetImage" -> "net"
      [] e \in {"makeDockerCredentials", "PullOciImage"} -> "oci"
      [] OTHER -> "none"

StrategiesUsed(p) == {EventStrategy(log[p][i]) : i \in 1..Len(log[p])} \ {"none"}

\* The transport tag of the reference on the command line.
TagOf(p) == Split(args[p][Len(args[p])]).transport

\* The strategy the tag calls for.
ExpectedStrategy(p) ==
    IF TagOf(p) \in {"library", ""} THEN "library"
    ELSE IF TagOf(p) = "shub" THEN "shub"
    ELSE IF TagOf(p) \in {"http", "https"} THEN "net"
    ELSE "oci"

\* C10: only the strategy that the reference's transport tag calls for is
\* entered and makes calls (library or no tag: the library flow; shub: the
\* hub; http, https: the network fetch; any other: the registry), and a
\* pull that returns has used it.
C10_OneStrategyByTransport ==
    \A p \in Procs :
        /\ StrategiesUsed(p) \subseteq {ExpectedStrategy(p)}
        /\ pc[p] \in {"library", "shub", "net", "oci"} => pc[p] = ExpectedStrategy(p)
        /\ (Exited(p) /\ status[p] = 0) => StrategiesUsed(p) = {ExpectedStrategy(p)}

\* C10's case: a reference with no transport went through the library flow.
C10_Witness ==
    \E p \in Procs :
        /\ args[p] = << <<"alpine">> >>
        /\ Exited(p) /\ status[p] = 0
        /\ InLog(p, "GetImage") /\ InLog(p, "Copy")

\* The reference on the command line, and its locator.
RefOf(p) == Split(args[p][Len(args[p])]).ref

\* C11: with an empty locator the pull ends in "bad uri" (or is still at
\* its first step, or was killed there): the goroutine is never started, no
\* call is made, and the cache and the working directory are as they were.
C11_EmptyLocatorFailsFirst ==
    \A p \in Procs :
        RefOf(p) = <<>> =>
            /\ pc[p] \in {"off", "start", "exited"}
            /\ guard[p] = "none"
            /\ \A i \in 1..Len(log[p]) : log[p][i] \in {"bad uri", "killed"}
            /\ Exited(p) => (status[p] # 0 /\ (status[p] = 255 <=> LastLog(p) = "bad uri"))
            /\ fs[p] \in Directories
            /\ cache \in Caches

\* C11's case: the reference "library:" ended in "bad uri".
C11_Witness ==
    \E p \in Procs :
        /\ args[p] = << <<"library", ":">> >>
        /\ Exited(p) /\ status[p] = 255
        /\ log[p] = <<"bad uri">>

TrustEvents == {"IsSigned", "ReadString", "warning", "not signed", "Aborting"}
LibraryCacheEvents == {"LibraryImageExists", "hit", "miss", "DownloadImage", "ImageHash",
                       "OpenSrc"}

\* C12: a pull whose transport is not the library's never calls
\* signing.IsSigned, never reads stdin, and neither asks the cache nor
\* writes to it, whatever its flags.
C12_OtherStrategiesSkipGateAndCache ==
    [][\A p \in Procs :
          (Alive(p) /\ ExpectedStrategy(p) # "library") =>
              /\ \A i \in 1..Len(log'[p]) :
                    log'[p][i] \notin TrustEvents \cup LibraryCacheEvents
              /\ pc'[p] \notin {"library", "getimage", "exists", "download", "downloading",
                                "hash", "opendst", "opensrc", "copy", "trust", "prompt",
                                "abort", "exit3"}
              /\ cache' = cache]_vars

\* C12's case: a docker reference pulled by the registry strategy, without
\* --allow-unauthenticated and with a library URI.
C12_Witness ==
    \E p \in Procs :
        /\ TagOf(p) = "docker"
        /\ ~unauthenticatedPull[p] /\ PullLibraryURI[p] # ""
        /\ Exited(p) /\ status[p] = 0
        /\ InLog(p, "PullOciImage")

\* C13: from the switch on and until the process ends, the goroutine is
\* in <-c (or has a request already), so that a termination request is
\* taken.
C13_GuardActiveFromDispatch ==
    \A p \in Procs :
        (Alive(p) /\ pc[p] \notin {"start", "notify"}) =>
            guard[p] \in {"waiting", "received", "removed"}

\* The reference was accepted and the name computed.
Resolved(p) ==
    /\ pc[p] \notin {"off", "start"}
    /\ ~InLog(p, "bad uri")
    /\ ~InLog(p, "killed")

\* The destination name as the command line calls for it.
ExpectedName(p) ==
    IF PullImageName[p] # "" THEN PullImageName[p]
    ELSE IF Len(args[p]) = 2 THEN args[p][1]
    ELSE IF TagOf(p) = "" THEN GetName(<<"library", ":", "//">> \o args[p][1])
    ELSE GetName(args[p][1])

\* C14: the destination name is --name when given, else the first of two
\* arguments, else the name of the reference (read as library://reference
\* when it has no transport, while the transport stays empty); the
\* goroutine is handed the same name, and no other file of the working
\* directory is touched.
C14_DestinationName ==
    \A p \in Procs :
        Resolved(p) =>
            /\ name[p] = ExpectedName(p)
            /\ name[p] \in DestNames
            /\ transport[p] = TagOf(p)
            /\ guard[p] # "none" => fileName[p] = name[p]
            /\ \A n \in DestNames \ {name[p]} :
                  /\ fs[p][n] \in {NoFile, File(OldData)}
                  /\ \A m \in DestNames \ {name[p]} : fs[p][m] = fs[p][n]

\* C14's case: --name given with a reference without transport; the main
\* flow wrote the file of that name and the goroutine then removed it.
C14_Witness ==
    \E p \in Procs :
        /\ args[p] = << <<"alpine">> >> /\ PullImageName[p] = "custom.sif"
        /\ InLog(p, "Copy")
        /\ guard[p] = "removed"
        /\ name[p] = "custom.sif" /\ ~fs[p]["custom.sif"].present

\* The trust gate is active for this pull.
GateActive(p) ==
    /\ ExpectedStrategy(p) = "library"
    /\ ~unauthenticatedPull[p]
    /\ PullLibraryURI[p] # ""

\* C15: with the trust gate active, the pull ends with status 0 only when
\* signing.IsSigned reported a signed image or the line read, lower-cased,
\* is "y\n".
C15_ExitZeroOnlySignedOrYes ==
    \A p \in Procs :
        (GateActive(p) /\ Exited(p) /\ status[p] = 0) =>
            /\ InLog(p, "IsSigned")
            /\ \/ ~InLog(p, "not signed") /\ ~InLog(p, "warning") /\ ~InLog(p, "ReadString")
               \/ /\ InLog(p, "ReadString") /\ ~InLog(p, "Error parsing input")
                  /\ ToLower(input[p]) = <<"y", "\n">>

\* C15's case: the image is not signed and the operator typed "Y\n".
C15_Witness ==
    \E p \in Procs :
        /\ GateActive(p) /\ Exited(p) /\ status[p] = 0
        /\ InLog(p, "not signed")
        /\ input[p] = <<"Y", "\n">>


\* C16: without --force, a file that was in the working directory before
\* the pull is left as it was by every step of the pull.
C16_ExistingDestinationUntouched ==
    [][\A p \in Procs : \A n \in DestNames :
          (~force[p] /\ fs[p][n] = File(OldData)) => fs'[p][n] = File(OldData)]_vars

\* C17: a library pull that ends with status 0, no termination request
\* having reached its goroutine and the other pulls having ended, leaves at
\* the destination a file whose hash is the one GetImage declared.
C17_ExitZeroDestinationHashMatches ==
    \A p \in Procs :
        (/\ Exited(p) /\ status[p] = 0
         /\ ExpectedStrategy(p) = "library"
         /\ NotInterrupted(p)
         /\ \A q \in Procs \ {p} : ~Alive(q)) =>
            /\ DestPresent(p)
            /\ ImageHash(fs[p][name[p]].data) = libraryImage[p].Hash

\* C18: a process that a termination request reached with signal.Notify
\* done, and that no fatal error of its own has ended, ends with status 1.
C18_RequestAfterNotifyEndsWithStatus1 ==
    \A p \in Procs :
        (Exited(p) /\ sigLost[p] /\ status[p] # 255) => status[p] = 1


\* The place of the first e in the log of p, and how many times e is there.
First(p, e) == CHOOSE i \in 1..Len(log[p]) :
                  log[p][i] = e /\ \A j \in 1..(i - 1) : log[p][j] # e
Count(p, e) == Cardinality({i \in 1..Len(log[p]) : log[p][i] = e})

\* When b was called, a had been called before.
Precedes(p, a, b) == InLog(p, b) => (InLog(p, a) /\ First(p, a) < First(p, b))

\* C19: in the library flow GetImage comes before LibraryImageExists; after
\* a hit neither DownloadImage nor ImageHash is called; after a miss the
\* destination is opened only with DownloadImage called once, ImageHash
\* called after it and the hash of the cache file equal to the declared
\* one; io.Copy ends before signing.IsSigned is called.
C19_LibraryStepOrder ==
    \A p \in Procs :
        /\ Precedes(p, "GetImage", "LibraryImageExists")
        /\ Count(p, "GetImage") <= 1 /\ Count(p, "LibraryImageExists") <= 1
        /\ InLog(p, "hit") => (~InLog(p, "DownloadImage") /\ ~InLog(p, "ImageHash"))
        /\ Precedes(p, "miss", "DownloadImage")
        /\ Precedes(p, "DownloadImage", "ImageHash")
        /\ Count(p, "DownloadImage") <= 1
        /\ Precedes(p, "LibraryImageExists", "OpenDst")
        /\ (InLog(p, "miss") /\ (InLog(p, "OpenDst") \/ pc[p] = "opendst")) =>
              /\ Count(p, "DownloadImage") = 1
              /\ Count(p, "ImageHash") = 1
              /\ ~InLog(p, "Hash does not match")
              /\ ~InLog(p, "Error getting ImageHash")
              /\ InLog(p, "OpenDst") => First(p, "ImageHash") < First(p, "OpenDst")
              /\ pc[p] = "opendst" =>
                    ImageHash(cache[imagePath[p]].data) = libraryImage[p].Hash
        /\ Precedes(p, "OpenDst", "OpenSrc")
        /\ Precedes(p, "OpenSrc", "Copy")
        /\ Precedes(p, "Copy", "IsSigned")
        /\ pc[p] \in {"trust", "prompt", "abort", "exit3"} => InLog(p, "Copy")

\* C19's case: a miss, the download, the hash compared, the copy and the
\* signature check, all in one pull that ended with status 0.
C19_Witness ==
    \E p \in Procs :
        /\ Exited(p) /\ status[p] = 0
        /\ InLog(p, "miss") /\ InLog(p, "DownloadImage") /\ InLog(p, "ImageHash")
        /\ InLog(p, "Copy") /\ InLog(p, "IsSigned")

\* C20: a library flow that has opened a file and then ends the process
\* itself (return, os.Exit(3), sylog.Fatalf) has closed the file.
C20_HandlesClosedOnEveryExit ==
    \A p \in Procs :
        (Exited(p) /\ status[p] \in {0, 3, 255}) =>
            /\ (InLog(p, "OpenDst") /\ ~InLog(p, "open destination"))
                  => InLog(p, "dstFile.Close")
            /\ (InLog(p, "OpenSrc") /\ ~InLog(p, "open cache file"))
                  => InLog(p, "srcFile.Close")

====
